---- MODULE Spec2Model ----
\* Hybrid conversation cache of the WeChat relay worker (in-memory Map in
\* front of a Workers KV namespace): getHistoryHybrid, updateHistoryHybrid,
\* cleanExpiredCache and handlePostRequest, with the KV namespace, the AI
\* provider, the clock and instance recycling as the environment (Spec,
\* PostSpec); the worker that keeps its history in KV only, workerWithChat.js
\* (WcSpec), and its trimHistory (TrimSpec); the worker that keeps its
\* history in the Map only (MemSpec); the worker that keeps it in a D1 table,
\* worker.js (D1Spec); the GET handshake of the four workers (HsSpec); and
\* one recorded turn from a cache holding entries of every age (SweepSpec).
EXTENDS Integers, Sequences, FiniteSets, TLC

\* ---------------------------------------------------------------------
\* Program constants
\* ---------------------------------------------------------------------
CACHE_TTL == 600000
MAX_HISTORY_MESSAGES == 4
KV_WRITE_THRESHOLD == 2

\* ---------------------------------------------------------------------
\* Bounds of the model
\* ---------------------------------------------------------------------
\* text messages received in one behaviour
MaxMsgs == 3
\* steps of the environment in one behaviour: clock ticks, recycles of the
\* instance, failed KV reads, failed KV writes, failed AI calls, POSTs that
\* are not text messages
MaxEnvSteps == 2
\* the clock advances by two thirds of the TTL at a time
TickMs == (2 * CACHE_TTL) \div 3

Users == {"u1", "u2"}
Reqs == {"r1", "r2"}

VARIABLES
    now,          \* Date.now()
    kvBound,      \* env.AI_CHAT_HISTORY is bound
    chatCache,    \* the Map: userId -> [history, expireAt, kvVersion]
    kv,           \* the KV namespace: userId -> JSON text
    req,          \* the handler invocations in flight
    writes,       \* put promises in flight, in the order they were started
    msgCount,     \* text messages received so far, per user
    envSteps,     \* steps of the environment taken so far
    recorded,     \* history: number of updateHistoryHybrid calls per user
    lastRecorded, \* history: what the latest updateHistoryHybrid(u) stored
    putsClean,    \* history: every put of the user succeeded, in start order
    preCache,     \* history: the unexpired records at the latest recycle
    syncFailed,   \* history: users whose newest put failed, no call since
    lastPut,      \* history: the put the KV namespace applied last, per user
    wc,           \* workerWithChat.js: the KV namespace and the invocation
    trimCall,     \* workerWithChat.js: a call of trimHistory
    mem,          \* the in-memory worker: its clock, Map and invocations
    d1,           \* worker.js: the D1 table and the invocations
    hs            \* a GET handshake request and its Response

\* the state of the other handler variants, untouched by the hybrid worker
variantVars == <<wc, trimCall, mem, d1, hs>>

vars == <<now, kvBound, chatCache, kv, req, writes, msgCount, envSteps,
          recorded, lastRecorded, putsClean, preCache, syncFailed,
          lastPut, wc, trimCall, mem, d1, hs>>

\* ---------------------------------------------------------------------
\* Map helpers (a JS Map is a function on the set of its keys)
\* ---------------------------------------------------------------------
MapSet(m, k, v) == [x \in (DOMAIN m) \cup {k} |-> IF x = k THEN v ELSE m[x]]

MapDelete(m, k) == [x \in (DOMAIN m) \ {k} |-> m[x]]

EmptyMap == [x \in {} |-> 0]

\* ---------------------------------------------------------------------
\* Turns and their JSON text
\* ---------------------------------------------------------------------
Turn(role, content) == [role |-> role, content |-> content]

\* the n-th text message of user u
UserText(u, n) == <<"msg", u, n>>

\* what chatWithOpenAI returns: the completion, or the error text its own
\* catch block builds from the non-success status or from the fetch failure
ReplyText(outcome, u, n) ==
    IF outcome = "ok" THEN <<"completion", u, n>>
    ELSE IF outcome = "status" THEN <<"OpenAI error: status", u, n>>
    ELSE <<"OpenAI error: fetch failed", u, n>>

\* the provider answers, answers with a non-success status, or the fetch
\* fails in transport
AiOutcomes == {"ok", "status", "transport"}

Tok(t) == [tok |-> t, val |-> <<>>]

StrTok(v) == [tok |-> "str", val |-> v]

RECURSIVE StringifyItems(_)
StringifyItems(h) ==
    IF h = <<>> THEN <<>>
    ELSE <<Tok("{"), StrTok(h[1].role), StrTok(h[1].content), Tok("}")>>
         \o StringifyItems(Tail(h))

\* JSON.stringify of an array of {role, content} objects, as a token text
JSONStringify(h) == <<Tok("[")>> \o StringifyItems(h) \o <<Tok("]")>>

RECURSIVE ParseItems(_)
\* the objects between the brackets: [ok, items]
ParseItems(t) ==
    IF t = <<>> THEN [ok |-> TRUE, items |-> <<>>]
    ELSE IF Len(t) >= 4 /\ t[1].tok = "{" /\ t[2].tok = "str"
            /\ t[3].tok = "str" /\ t[4].tok = "}"
         THEN LET rest == ParseItems(SubSeq(t, 5, Len(t)))
              IN  [ok |-> rest.ok,
                   items |-> <<Turn(t[2].val, t[3].val)>> \o rest.items]
         ELSE [ok |-> FALSE, items |-> <<>>]

Reverse(h) == [i \in 1..Len(h) |-> h[Len(h) + 1 - i]]

\* the parsed array in reverse order
JSONParse_ReversedItems(t) ==
    IF Len(t) >= 2 /\ t[1].tok = "[" /\ t[Len(t)].tok = "]"
    THEN LET p == ParseItems(SubSeq(t, 2, Len(t) - 1))
         IN  IF p.ok
             THEN [threw |-> FALSE, isArray |-> TRUE, value |-> Reverse(p.items)]
             ELSE [threw |-> TRUE, isArray |-> FALSE, value |-> <<>>]
    ELSE IF t = <<Tok("{"), Tok("}")>>
    THEN [threw |-> FALSE, isArray |-> FALSE, value |-> <<>>]
    ELSE [threw |-> TRUE, isArray |-> FALSE, value |-> <<>>]

\* JSON.parse: [threw, isArray, value]
JSONParse(t) ==
    IF Len(t) >= 2 /\ t[1].tok = "[" /\ t[Len(t)].tok = "]"
    THEN LET p == ParseItems(SubSeq(t, 2, Len(t) - 1))
         IN  IF p.ok
             THEN [threw |-> FALSE, isArray |-> TRUE, value |-> p.items]
             ELSE [threw |-> TRUE, isArray |-> FALSE, value |-> <<>>]
    ELSE IF t = <<Tok("{"), Tok("}")>>
    THEN [threw |-> FALSE, isArray |-> FALSE, value |-> <<>>]
    ELSE [threw |-> TRUE, isArray |-> FALSE, value |-> <<>>]

\* Array.prototype.slice(-n)
SliceLast(h, n) ==
    IF Len(h) > n THEN SubSeq(h, Len(h) - n + 1, Len(h)) ELSE h

\* ---------------------------------------------------------------------
\* Values a KV entry can hold before the instance starts
\* ---------------------------------------------------------------------
OldTurns(k) ==
    [i \in 1..k |-> IF i % 2 = 1 THEN Turn("user", <<"old", i>>)
                    ELSE Turn("assistant", <<"old", i>>)]

\* nothing stored; for u1 a two-turn list or a list written under a larger
\* limit; for u2 a truncated text or a JSON object
KvInits ==
    { EmptyMap,
      [x \in Users |-> IF x = "u1" THEN JSONStringify(OldTurns(2))
                       ELSE <<Tok("[")>>],
      [x \in Users |-> IF x = "u1" THEN JSONStringify(OldTurns(6))
                       ELSE <<Tok("{"), Tok("}")>>] }

NoResp == [status |-> "none", present |-> FALSE, data |-> <<>>]

IdleReq == [pc |-> "idle", user |-> "u1", msg |-> 0, history |-> <<>>,
            resp |-> NoResp, src |-> "none", found |-> "none",
            overlap |-> {}, order |-> 0, wrote |-> FALSE,
            status |-> 0, reply |-> <<>>, kind |-> "none", recAt |-> 0]

\* the ExecutionContext the runtime passes to fetch
Ctx == [waitUntil |-> TRUE]

NoPre == [clean |-> FALSE, cache |-> EmptyMap]

\* a variant that is not running
NoCall == [pc |-> "none"]

Init ==
    /\ now = 0
    /\ kvBound \in BOOLEAN
    /\ kv \in (IF kvBound THEN KvInits ELSE {EmptyMap})
    /\ chatCache = EmptyMap
    /\ req = [r \in Reqs |-> IdleReq]
    /\ writes = <<>>
    /\ msgCount = [u \in Users |-> 0]
    /\ envSteps = 0
    /\ recorded = [u \in Users |-> 0]
    /\ lastRecorded = EmptyMap
    /\ putsClean = [u \in Users |-> TRUE]
    /\ preCache = NoPre
    /\ syncFailed = {}
    /\ lastPut = EmptyMap
    /\ wc = NoCall
    /\ trimCall = NoCall
    /\ mem = NoCall
    /\ d1 = NoCall
    /\ hs = NoCall

\* ---------------------------------------------------------------------
\* getHistoryHybrid
\* ---------------------------------------------------------------------
\* the hit test without the expiry comparison
CacheHit_IgnoreExpiry(c, u, t) == u \in DOMAIN c

\* cached && cached.expireAt > Date.now()
CacheHit(c, u, t) == u \in DOMAIN c /\ c[u].expireAt > t

\* the load without the Array.isArray test
KvLoad_NoArrayCheck(resp, t) ==
    IF resp.status = "ok" /\ resp.present /\ resp.data # <<>>
       /\ ~JSONParse(resp.data).threw
    THEN LET history == JSONParse(resp.data).value
         IN  [set |-> TRUE, threw |-> FALSE, history |-> history,
              rec |-> [history |-> history, expireAt |-> t + CACHE_TTL,
                       kvVersion |-> Len(history)]]
    ELSE [set |-> FALSE, threw |-> FALSE, history |-> <<>>,
          rec |-> [history |-> <<>>, expireAt |-> 0, kvVersion |-> 0]]

\* the loaded record marked as not synced
KvLoad_MarkZero(resp, t) ==
    IF resp.status = "ok" /\ resp.present /\ resp.data # <<>>
       /\ ~JSONParse(resp.data).threw /\ JSONParse(resp.data).isArray
    THEN LET history == JSONParse(resp.data).value
         IN  [set |-> TRUE, threw |-> FALSE, history |-> history,
              rec |-> [history |-> history, expireAt |-> t + CACHE_TTL,
                       kvVersion |-> 0]]
    ELSE [set |-> FALSE, threw |-> FALSE, history |-> <<>>,
          rec |-> [history |-> <<>>, expireAt |-> 0, kvVersion |-> 0]]

\* lines 96-116: what getHistoryHybrid makes of the answer of
\* kvNamespace.get: the record it sets (if any), the history it returns, and
\* whether an exception leaves the function (the try block catches them all)
KvLoad(resp, t) ==
    IF resp.status = "ok" /\ resp.present /\ resp.data # <<>>
       /\ ~JSONParse(resp.data).threw /\ JSONParse(resp.data).isArray
    THEN LET history == JSONParse(resp.data).value
         IN  [set |-> TRUE, threw |-> FALSE, history |-> history,
              rec |-> [history |-> history, expireAt |-> t + CACHE_TTL,
                       kvVersion |-> Len(history)]]
    ELSE [set |-> FALSE, threw |-> FALSE, history |-> <<>>,
          rec |-> [history |-> <<>>, expireAt |-> 0, kvVersion |-> 0]]

\* what chatCache.get(userId) found, as the reader sees it
Found(c, u, t) ==
    IF u \notin DOMAIN c THEN "none"
    ELSE IF c[u].expireAt > t THEN "live"
    ELSE IF c[u].expireAt = t THEN "due"
    ELSE "past"

InFlight(r) == req[r].pc \in {"get", "got", "ai"}

Received == msgCount["u1"] + msgCount["u2"]

\* the free handler slot a new request takes
FreeSlot == CHOOSE r \in Reqs : ~InFlight(r) /\ (r = "r1" \/ InFlight("r1"))

\* A text message of user u arrives; the handler runs getHistoryHybrid up to
\* its return (memory hit, or no KV bound) or up to the await of the KV read.
Receive(r, u) ==
    /\ \E q \in Reqs : ~InFlight(q)
    /\ r = FreeSlot
    /\ Received < MaxMsgs
    /\ msgCount' = [msgCount EXCEPT ![u] = @ + 1]
    /\ LET new == [IdleReq EXCEPT !.user = u, !.msg = msgCount[u] + 1,
                       !.kind = "text", !.recAt = recorded[u],
                       !.found = Found(chatCache, u, now),
                       !.overlap = {req[q].msg : q \in {q \in Reqs :
                                       InFlight(q) /\ req[q].user = u}}]
       IN  IF CacheHit(chatCache, u, now)
           THEN /\ req' = [req EXCEPT ![r] = [new EXCEPT !.pc = "ai",
                               !.history = chatCache[u].history, !.src = "local"]]
                /\ UNCHANGED chatCache
           ELSE /\ chatCache' = MapDelete(chatCache, u)
                /\ IF kvBound
                   THEN req' = [req EXCEPT ![r] = [new EXCEPT !.pc = "get"]]
                   ELSE req' = [req EXCEPT ![r] = [new EXCEPT !.pc = "ai",
                               !.src = "empty"]]
    /\ UNCHANGED <<envSteps, now, kvBound, kv, writes, recorded,
                   lastRecorded, putsClean, preCache, syncFailed, lastPut>>
    /\ UNCHANGED variantVars

\* ---------------------------------------------------------------------
\* handlePostRequest for bodies that are not text messages
\* ---------------------------------------------------------------------
\* a POST body, as the CDATA tags the regular expressions can find in it
XmlBody(tags) == tags

\* a body that is no platform message: none of the tags is found
MalformedBody == XmlBody(EmptyMap)

OtherBodies ==
    { MalformedBody,
      XmlBody([t \in {"MsgType", "Event", "FromUserName", "ToUserName"} |->
                 IF t = "MsgType" THEN "event"
                 ELSE IF t = "Event" THEN "subscribe"
                 ELSE IF t = "FromUserName" THEN "u1" ELSE "gh"]),
      XmlBody([t \in {"MsgType", "FromUserName", "ToUserName"} |->
                 IF t = "MsgType" THEN "image"
                 ELSE IF t = "FromUserName" THEN "u2" ELSE "gh"]) }

\* match ? match[1] : ""
extractTag(xml, tag) == IF tag \in DOMAIN xml THEN xml[tag] ELSE ""

\* parseXML always returns an object, whatever the body
parseXML(xml) ==
    [isNull |-> FALSE,
     MsgType |-> extractTag(xml, "MsgType"),
     Event |-> extractTag(xml, "Event"),
     Content |-> IF extractTag(xml, "MsgType") = "text"
                 THEN extractTag(xml, "Content") ELSE "",
     FromUserName |-> extractTag(xml, "FromUserName"),
     ToUserName |-> extractTag(xml, "ToUserName")]

\* the Response of handlePostRequest for a message that is not a text
PostResponse(msg) ==
    IF msg.isNull THEN [status |-> 400, reply |-> <<"Invalid XML">>]
    ELSE IF msg.MsgType = "event" /\ msg.Event = "subscribe"
    THEN [status |-> 200, reply |-> <<"WELCOME_MESSAGE">>]
    ELSE [status |-> 200, reply |-> <<"UNSUPPORTED_MESSAGE">>]

BodyKind(xml) ==
    IF xml = MalformedBody THEN "malformed"
    ELSE IF xml["MsgType"] = "event" THEN "event" ELSE "other"

\* A POST that is not a text message is answered at once.
PostOther(r, xml) ==
    /\ \E q \in Reqs : ~InFlight(q)
    /\ r = FreeSlot
    /\ envSteps < MaxEnvSteps
    /\ envSteps' = envSteps + 1
    /\ parseXML(xml).MsgType # "text"
    /\ req' = [req EXCEPT ![r] =
                  [IdleReq EXCEPT !.pc = "done", !.kind = BodyKind(xml),
                                  !.status = PostResponse(parseXML(xml)).status,
                                  !.reply = PostResponse(parseXML(xml)).reply]]
    /\ UNCHANGED <<now, kvBound, chatCache, kv, writes, msgCount, recorded,
                   lastRecorded, putsClean, preCache, syncFailed, lastPut>>
    /\ UNCHANGED variantVars

\* The KV namespace answers the get: the entry it holds now, or an error.
KvGetRespond(r) ==
    /\ req[r].pc = "get"
    /\ \E failed \in BOOLEAN :
         LET u == req[r].user
             resp == IF failed THEN [NoResp EXCEPT !.status = "error"]
                     ELSE IF u \in DOMAIN kv
                     THEN [status |-> "ok", present |-> TRUE, data |-> kv[u]]
                     ELSE [NoResp EXCEPT !.status = "ok"]
         IN  /\ failed => envSteps < MaxEnvSteps
             /\ envSteps' = envSteps + (IF failed THEN 1 ELSE 0)
             /\ req' = [req EXCEPT ![r].pc = "got", ![r].resp = resp]
    /\ UNCHANGED <<now, kvBound, chatCache, kv, writes, msgCount,
                   recorded, lastRecorded, putsClean, preCache, syncFailed, lastPut>>
    /\ UNCHANGED variantVars

\* getHistoryHybrid resumes after the await and returns.
LoadResume(r) ==
    /\ req[r].pc = "got"
    /\ LET u == req[r].user
           load == KvLoad(req[r].resp, now)
       IN  /\ chatCache' = IF load.set THEN MapSet(chatCache, u, load.rec)
                           ELSE chatCache
           /\ req' = [req EXCEPT ![r].pc = IF load.threw THEN "threw" ELSE "ai",
                          ![r].history = load.history,
                          ![r].src = IF load.set THEN "kv" ELSE "empty"]
    /\ UNCHANGED <<envSteps, now, kvBound, kv, writes, msgCount, recorded,
                   lastRecorded, putsClean, preCache, syncFailed, lastPut>>
    /\ UNCHANGED variantVars

\* ---------------------------------------------------------------------
\* updateHistoryHybrid and cleanExpiredCache
\* ---------------------------------------------------------------------
\* the truncation left out
Truncate_NoSlice(h) == h

\* the slice one entry short
Truncate_OddSlice(h) ==
    IF Len(h) > MAX_HISTORY_MESSAGES
    THEN SliceLast(h, MAX_HISTORY_MESSAGES - 1)
    ELSE h

\* if (history.length > MAX_HISTORY_MESSAGES) history = history.slice(-MAX...)
Truncate(h) ==
    IF Len(h) > MAX_HISTORY_MESSAGES THEN SliceLast(h, MAX_HISTORY_MESSAGES)
    ELSE h

\* the threshold compared with > instead of >=
NeedsKvWrite_Strict(bound, history, kvVersion) ==
    bound /\ Len(history) - kvVersion > KV_WRITE_THRESHOLD

\* the binding not tested
NeedsKvWrite_IgnoresBinding(bound, history, kvVersion) ==
    Len(history) - kvVersion >= KV_WRITE_THRESHOLD

\* kvNamespace && changeCount >= KV_WRITE_THRESHOLD
NeedsKvWrite(bound, history, kvVersion) ==
    bound /\ Len(history) - kvVersion >= KV_WRITE_THRESHOLD

\* the sweep keeping a record that expires at this very millisecond
CleanExpiredCache_KeepsDue(c, t) ==
    [x \in {y \in DOMAIN c : ~(c[y].expireAt < t)} |-> c[x]]

\* the sweep emptying the Map
CleanExpiredCache_Clear(c, t) == EmptyMap

\* if (cached.expireAt <= now) chatCache.delete(userId), for every entry
CleanExpiredCache(c, t) ==
    [x \in {y \in DOMAIN c : ~(c[y].expireAt <= t)} |-> c[x]]

\* an error text of the provider is not recorded
UpdatedRecord_SkipsErrors(c, u, userMsg, assistantReply, t) ==
    LET base == IF u \in DOMAIN c THEN c[u].history ELSE <<>>
        kvVersion == IF u \in DOMAIN c THEN c[u].kvVersion ELSE 0
        pushed == IF assistantReply[1] = "completion"
                  THEN base \o <<Turn("user", userMsg),
                                  Turn("assistant", assistantReply)>>
                  ELSE base
    IN  [history |-> Truncate(pushed), expireAt |-> t + CACHE_TTL,
         kvVersion |-> kvVersion]

\* the mark reset by every call
UpdatedRecord_ResetsMark(c, u, userMsg, assistantReply, t) ==
    LET base == IF u \in DOMAIN c THEN c[u].history ELSE <<>>
        pushed == base \o <<Turn("user", userMsg),
                            Turn("assistant", assistantReply)>>
    IN  [history |-> Truncate(pushed), expireAt |-> t + CACHE_TTL,
         kvVersion |-> 0]

\* the record updateHistoryHybrid sets for userId
UpdatedRecord(c, u, userMsg, assistantReply, t) ==
    LET base == IF u \in DOMAIN c THEN c[u].history ELSE <<>>
        kvVersion == IF u \in DOMAIN c THEN c[u].kvVersion ELSE 0
        pushed == base \o <<Turn("user", userMsg),
                            Turn("assistant", assistantReply)>>
    IN  [history |-> Truncate(pushed), expireAt |-> t + CACHE_TTL,
         kvVersion |-> kvVersion]

\* waiting for the put before the response is built
AfterUpdateHistory_AwaitsPut(put) == IF put THEN "put" ELSE "done"

\* line 71 calls updateHistoryHybrid without await and the function awaits
\* nothing itself: the handler goes on to build the Response
AfterUpdateHistory(put) == "done"

\* if (ctx?.waitUntil) ctx.waitUntil(writePromise)
HandedToWaitUntil(ctx) == ctx.waitUntil

\* history: the puts of u in flight are no longer the newest put of u
Older(ws, u) ==
    [i \in DOMAIN ws |-> IF ws[i].user = u THEN [ws[i] EXCEPT !.newest = FALSE]
                         ELSE ws[i]]

\* The AI call returns (a completion or the provider's error text) and the
\* handler runs updateHistoryHybrid to its end, the sweep included, and
\* returns the Response.
AiReply(r) ==
    /\ req[r].pc = "ai"
    /\ \E outcome \in AiOutcomes :
         LET u == req[r].user
             reply == ReplyText(outcome, u, req[r].msg)
             rec == UpdatedRecord(chatCache, u, UserText(u, req[r].msg),
                                  reply, now)
             put == NeedsKvWrite(kvBound, rec.history, rec.kvVersion)
         IN  /\ outcome = "ok" \/ envSteps < MaxEnvSteps
             /\ envSteps' = envSteps + (IF outcome = "ok" THEN 0 ELSE 1)
             /\ chatCache' = CleanExpiredCache(MapSet(chatCache, u, rec), now)
             /\ writes' = IF put
                          THEN Append(Older(writes, u),
                                 [user |-> u, text |-> JSONStringify(rec.history),
                                  history |-> rec.history,
                                  len |-> Len(rec.history), stage |-> "sent",
                                  msg |-> req[r].msg,
                                  waited |-> HandedToWaitUntil(Ctx),
                                  newest |-> TRUE])
                          ELSE writes
             /\ recorded' = [recorded EXCEPT ![u] = @ + 1]
             /\ lastRecorded' = MapSet(lastRecorded, u,
                                [history |-> rec.history, expireAt |-> rec.expireAt])
             /\ req' = [req EXCEPT ![r] = [IdleReq EXCEPT
                            !.pc = AfterUpdateHistory(put),
                            !.user = u, !.msg = req[r].msg,
                            !.overlap = req[r].overlap, !.wrote = put,
                            !.order = recorded[u] + 1,
                            !.status = 200, !.reply = reply,
                            !.kind = "text"]]
             /\ syncFailed' = syncFailed \ {u}
    /\ UNCHANGED <<now, kvBound, kv, msgCount, putsClean, preCache, lastPut>>
    /\ UNCHANGED variantVars

\* ---------------------------------------------------------------------
\* The put promises
\* ---------------------------------------------------------------------
RemoveAt(s, i) == SubSeq(s, 1, i - 1) \o SubSeq(s, i + 1, Len(s))

\* The KV namespace stores the value of a put.
KvPutApply(i) ==
    /\ i \in DOMAIN writes
    /\ writes[i].stage = "sent"
    /\ kv' = MapSet(kv, writes[i].user, writes[i].text)
    /\ writes' = [writes EXCEPT ![i].stage = "stored"]
    /\ putsClean' = [putsClean EXCEPT ![writes[i].user] =
                        @ /\ ~\E j \in 1..(i - 1) :
                                 /\ writes[j].user = writes[i].user
                                 /\ writes[j].stage = "sent"]
    /\ lastPut' = MapSet(lastPut, writes[i].user,
                         [text |-> writes[i].text, history |-> writes[i].history])
    /\ UNCHANGED <<envSteps, now, kvBound, chatCache, req, msgCount,
                   recorded, lastRecorded, preCache, syncFailed>>
    /\ UNCHANGED variantVars

\* The put rejects; the catch handler logs.
KvPutFail(i) ==
    /\ i \in DOMAIN writes
    /\ writes[i].stage = "sent"
    /\ envSteps < MaxEnvSteps
    /\ envSteps' = envSteps + 1
    /\ writes' = RemoveAt(writes, i)
    /\ putsClean' = [putsClean EXCEPT ![writes[i].user] = FALSE]
    /\ syncFailed' = IF writes[i].newest
                      THEN syncFailed \cup {writes[i].user}
                      ELSE syncFailed
    /\ UNCHANGED <<now, kvBound, chatCache, kv, req, msgCount, recorded,
                   lastRecorded, preCache, lastPut>>
    /\ UNCHANGED variantVars

\* the then-callback of the put: current.kvVersion = history.length
MarkSynced(c, u, len) ==
    IF u \in DOMAIN c THEN [c EXCEPT ![u].kvVersion = len] ELSE c

WriteThen(i) ==
    /\ i \in DOMAIN writes
    /\ writes[i].stage = "stored"
    /\ chatCache' = MarkSynced(chatCache, writes[i].user, writes[i].len)
    /\ writes' = RemoveAt(writes, i)
    /\ UNCHANGED <<envSteps, now, kvBound, kv, req, msgCount, recorded,
                   lastRecorded, putsClean, preCache, syncFailed, lastPut>>
    /\ UNCHANGED variantVars

\* ---------------------------------------------------------------------
\* Environment: the clock and the recycling of the instance
\* ---------------------------------------------------------------------
Tick ==
    /\ envSteps < MaxEnvSteps
    /\ envSteps' = envSteps + 1
    /\ now' = now + TickMs
    /\ UNCHANGED <<kvBound, chatCache, kv, req, writes, msgCount, recorded,
                   lastRecorded, putsClean, preCache, syncFailed, lastPut>>
    /\ UNCHANGED variantVars

\* The idle instance is discarded and a new one starts with an empty Map;
\* put promises still pending are torn down with it.
Recycle ==
    /\ envSteps < MaxEnvSteps
    /\ \A r \in Reqs : ~InFlight(r)
    /\ envSteps' = envSteps + 1
    /\ preCache' = IF writes = <<>> /\ \A u \in Users : putsClean[u]
                   THEN [clean |-> TRUE,
                         cache |-> CleanExpiredCache(chatCache, now)]
                   ELSE NoPre
    /\ chatCache' = EmptyMap
    /\ req' = [r \in Reqs |-> IdleReq]
    /\ writes' = <<>>
    /\ recorded' = [u \in Users |-> 0]
    /\ lastRecorded' = EmptyMap
    /\ putsClean' = [u \in Users |-> TRUE]
    /\ syncFailed' = {}
    /\ UNCHANGED <<now, kvBound, kv, msgCount, lastPut>>
    /\ UNCHANGED variantVars

Next ==
    \/ \E r \in Reqs, u \in Users : Receive(r, u)
    \/ \E r \in Reqs : KvGetRespond(r)
    \/ \E r \in Reqs : LoadResume(r)
    \/ \E r \in Reqs : AiReply(r)
    \/ \E i \in DOMAIN writes : KvPutApply(i)
    \/ \E i \in DOMAIN writes : KvPutFail(i)
    \/ \E i \in DOMAIN writes : WriteThen(i)
    \/ Tick
    \/ Recycle

\* the worker receiving text messages only
Spec == Init /\ [][Next]_vars

\* one instance of the worker receiving every kind of POST within the TTL
\* of its first record
PostNext ==
    \/ \E r \in Reqs, xml \in OtherBodies : PostOther(r, xml)
    \/ \E r \in Reqs, u \in Users : Receive(r, u)
    \/ \E r \in Reqs : KvGetRespond(r)
    \/ \E r \in Reqs : LoadResume(r)
    \/ \E r \in Reqs : AiReply(r)
    \/ \E i \in DOMAIN writes : KvPutApply(i)
    \/ \E i \in DOMAIN writes : KvPutFail(i)
    \/ \E i \in DOMAIN writes : WriteThen(i)

PostSpec == Init /\ [][PostNext]_vars

\* ---------------------------------------------------------------------
\* workerWithChat.js: the handler that keeps the history in KV only
\* ---------------------------------------------------------------------
\* text messages received by the KV worker in one behaviour
MaxWcMsgs == 3
\* the largest CHAT_HISTORY_LIMIT configured
MaxLimit == 3

\* the state of the hybrid worker, untouched by the KV worker
hybridVars == <<now, kvBound, chatCache, kv, req, writes, msgCount, envSteps,
                recorded, lastRecorded, putsClean, preCache, syncFailed,
                lastPut>>

\* a JavaScript value that is an array, and one that is not
JsArray(h) == [isArray |-> TRUE, value |-> h]

NotArray == [isArray |-> FALSE, value |-> <<>>]

\* Array.prototype.slice(start)
Slice(h, start) ==
    LET from == IF start >= 0 THEN start
                ELSE IF Len(h) + start > 0 THEN Len(h) + start ELSE 0
    IN  IF from >= Len(h) THEN <<>> ELSE SubSeq(h, from + 1, Len(h))

\* the slice taken from the end with a negated limit
trimHistory_NegatedLimit(history, limit) ==
    IF ~history.isArray THEN <<>>
    ELSE IF Len(history.value) > limit
    THEN Slice(history.value, 0 - limit)
    ELSE history.value

\* only the oldest entry dropped
trimHistory_DropsOldest(history, limit) ==
    IF ~history.isArray THEN <<>>
    ELSE IF Len(history.value) > limit
    THEN Slice(history.value, 1)
    ELSE history.value

\* function trimHistory(history, limit)
trimHistory(history, limit) ==
    IF ~history.isArray THEN <<>>
    ELSE IF Len(history.value) > limit
    THEN Slice(history.value, Len(history.value) - limit)
    ELSE history.value

\* env.OPENAI_SYSTEM_PROMPT as the first message
SystemTurn == Turn("system", <<"prompt">>)

\* the messages array chatWithOpenAI builds
ChatMessages(msg, history) ==
    <<SystemTurn>> \o history \o <<Turn("user", msg)>>

\* getHistory: the parsed array, or [] for a missing, unparsable or
\* non-array value and for a failed read
WcGetHistory(bound, resp) ==
    IF bound /\ resp.status = "ok" /\ resp.present /\ resp.data # <<>>
       /\ ~JSONParse(resp.data).threw /\ JSONParse(resp.data).isArray
    THEN JSONParse(resp.data).value
    ELSE <<>>

WcKvInits ==
    { EmptyMap,
      [x \in {"u1"} |-> JSONStringify(OldTurns(2))],
      [x \in Users |-> IF x = "u1" THEN JSONStringify(OldTurns(4))
                       ELSE <<Tok("{"), Tok("}")>>] }

WcIdle == [pc |-> "idle", user |-> "u1", msg |-> 0, stored |-> <<>>,
           history |-> <<>>, messages |-> <<>>, reply |-> <<>>, status |-> 0]

WcInit ==
    /\ now = 0
    /\ kvBound = FALSE
    /\ kv = EmptyMap
    /\ chatCache = EmptyMap
    /\ req = [r \in Reqs |-> IdleReq]
    /\ writes = <<>>
    /\ msgCount = [u \in Users |-> 0]
    /\ envSteps = 0
    /\ recorded = [u \in Users |-> 0]
    /\ lastRecorded = EmptyMap
    /\ putsClean = [u \in Users |-> TRUE]
    /\ preCache = NoPre
    /\ syncFailed = {}
    /\ lastPut = EmptyMap
    /\ trimCall = NoCall
    /\ mem = NoCall
    /\ d1 = NoCall
    /\ hs = NoCall
    /\ \E bound \in BOOLEAN, limit \in 1..MaxLimit :
         \E store \in (IF bound THEN WcKvInits ELSE {EmptyMap}) :
            wc = [bound |-> bound, limit |-> limit, kvStore |-> store,
                  received |-> 0, inv |-> WcIdle]

\* A text message of user u arrives; getHistory awaits the KV read (or
\* returns [] at once when a parameter is missing).
WcReceive(u) ==
    /\ wc.inv.pc \in {"idle", "done"}
    /\ wc.received < MaxWcMsgs
    /\ wc' = [wc EXCEPT !.received = @ + 1,
                        !.inv = [WcIdle EXCEPT !.pc = "get", !.user = u,
                                               !.msg = wc.received + 1]]
    /\ UNCHANGED hybridVars
    /\ UNCHANGED <<trimCall, mem, d1, hs>>

\* getHistory returns; the handler pushes the user message, trims, and
\* chatWithOpenAI builds the messages and sends them.
WcSend ==
    /\ wc.inv.pc = "get"
    /\ \E failed \in BOOLEAN :
         LET u == wc.inv.user
             resp == IF failed THEN [NoResp EXCEPT !.status = "error"]
                     ELSE IF u \in DOMAIN wc.kvStore
                     THEN [status |-> "ok", present |-> TRUE,
                           data |-> wc.kvStore[u]]
                     ELSE [NoResp EXCEPT !.status = "ok"]
             userMsg == UserText(u, wc.inv.msg)
             stored == WcGetHistory(wc.bound, resp)
             conversationHistory ==
                 trimHistory(JsArray(Append(stored, Turn("user", userMsg))),
                             wc.limit)
         IN  /\ failed => wc.bound
             /\ wc' = [wc EXCEPT !.inv.pc = "ai",
                                 !.inv.stored = stored,
                                 !.inv.history = conversationHistory,
                                 !.inv.messages =
                                     ChatMessages(userMsg, conversationHistory)]
    /\ UNCHANGED hybridVars
    /\ UNCHANGED <<trimCall, mem, d1, hs>>

\* The provider call returns; the handler pushes the reply, trims, and
\* updateHistory awaits the put.
WcAiReply ==
    /\ wc.inv.pc = "ai"
    /\ \E outcome \in AiOutcomes :
         LET reply == ReplyText(outcome, wc.inv.user, wc.inv.msg)
         IN  wc' = [wc EXCEPT !.inv.pc = "put",
                             !.inv.reply = reply,
                             !.inv.history =
                                 trimHistory(JsArray(Append(wc.inv.history,
                                                 Turn("assistant", reply))),
                                             wc.limit)]
    /\ UNCHANGED hybridVars
    /\ UNCHANGED <<trimCall, mem, d1, hs>>

\* The put settles (a failure is logged) and the handler returns the reply.
WcRespond ==
    /\ wc.inv.pc = "put"
    /\ \E failed \in BOOLEAN :
         /\ failed => wc.bound
         /\ wc' = [wc EXCEPT !.inv.pc = "done", !.inv.status = 200,
                             !.kvStore =
                                 IF wc.bound /\ ~failed
                                 THEN MapSet(wc.kvStore, wc.inv.user,
                                             JSONStringify(wc.inv.history))
                                 ELSE wc.kvStore]
    /\ UNCHANGED hybridVars
    /\ UNCHANGED <<trimCall, mem, d1, hs>>

WcNext ==
    \/ \E u \in Users : WcReceive(u)
    \/ WcSend
    \/ WcAiReply
    \/ WcRespond

WcSpec == WcInit /\ [][WcNext]_vars

\* ---------------------------------------------------------------------
\* workerWithChat.js: trimHistory called on its own
\* ---------------------------------------------------------------------
\* the longest array passed to trimHistory
MaxTrimLen == 4

TrimItems == {Turn("user", <<"a">>), Turn("assistant", <<"b">>)}

\* the values passed as history: every array up to MaxTrimLen, and a value
\* that is not an array
TrimInputs ==
    {NotArray} \cup
    {JsArray(h) : h \in UNION {[1..k -> TrimItems] : k \in 0..MaxTrimLen}}

TrimInit ==
    /\ now = 0
    /\ kvBound = FALSE
    /\ kv = EmptyMap
    /\ chatCache = EmptyMap
    /\ req = [r \in Reqs |-> IdleReq]
    /\ writes = <<>>
    /\ msgCount = [u \in Users |-> 0]
    /\ envSteps = 0
    /\ recorded = [u \in Users |-> 0]
    /\ lastRecorded = EmptyMap
    /\ putsClean = [u \in Users |-> TRUE]
    /\ preCache = NoPre
    /\ syncFailed = {}
    /\ lastPut = EmptyMap
    /\ wc = NoCall
    /\ mem = NoCall
    /\ d1 = NoCall
    /\ hs = NoCall
    /\ \E history \in TrimInputs, limit \in 0..MaxLimit :
         trimCall = [pc |-> "call", history |-> history, limit |-> limit,
                     out |-> <<>>, again |-> <<>>]

\* trimHistory(history, limit)
TrimOnce ==
    /\ trimCall.pc = "call"
    /\ trimCall' = [trimCall EXCEPT !.pc = "once",
                       !.out = trimHistory(trimCall.history, trimCall.limit)]
    /\ UNCHANGED hybridVars
    /\ UNCHANGED <<wc, mem, d1, hs>>

\* trimHistory applied to its own result, with the same limit
TrimTwice ==
    /\ trimCall.pc = "once"
    /\ trimCall' = [trimCall EXCEPT !.pc = "twice",
                       !.again = trimHistory(JsArray(trimCall.out),
                                             trimCall.limit)]
    /\ UNCHANGED hybridVars
    /\ UNCHANGED <<wc, mem, d1, hs>>

TrimNext == TrimOnce \/ TrimTwice

TrimSpec == TrimInit /\ [][TrimNext]_vars

\* ---------------------------------------------------------------------
\* The in-memory worker: the history lives in the Map only
\* ---------------------------------------------------------------------
\* rounds kept per user
MAX_HISTORY == 4
\* text messages received by the in-memory worker in one behaviour
MaxMemMsgs == 6
\* clock ticks, recycles and failed AI calls in one behaviour
MaxMemSteps == 3
\* the clock advances by half the TTL at a time
MemTickMs == CACHE_TTL \div 2

\* the hybrid worker is not running
HybridOff ==
    /\ now = 0
    /\ kvBound = FALSE
    /\ kv = EmptyMap
    /\ chatCache = EmptyMap
    /\ req = [r \in Reqs |-> IdleReq]
    /\ writes = <<>>
    /\ msgCount = [u \in Users |-> 0]
    /\ envSteps = 0
    /\ recorded = [u \in Users |-> 0]
    /\ lastRecorded = EmptyMap
    /\ putsClean = [u \in Users |-> TRUE]
    /\ preCache = NoPre
    /\ syncFailed = {}
    /\ lastPut = EmptyMap

MemIdle == [pc |-> "idle", user |-> "u1", msg |-> 0, history |-> <<>>,
            found |-> "none"]

MemInit ==
    /\ HybridOff
    /\ wc = NoCall
    /\ trimCall = NoCall
    /\ d1 = NoCall
    /\ hs = NoCall
    /\ mem = [pc |-> "run", now |-> 0, chatCache |-> EmptyMap,
              req |-> [r \in Reqs |-> MemIdle],
              msgCount |-> [u \in Users |-> 0], envSteps |-> 0,
              log |-> [u \in Users |-> <<>>],
              written |-> EmptyMap,
              streak |-> [u \in Users |-> 0]]

\* getHistory(userId): the history it returns and the Map it leaves
MemGetHistory(c, u, t) ==
    IF u \in DOMAIN c /\ c[u].expireAt > t
    THEN [history |-> c[u].history, chatCache |-> c]
    ELSE [history |-> <<>>, chatCache |-> MapDelete(c, u)]

\* the slice taking MAX_HISTORY messages
MemTruncate_RoundsAsMessages(h) ==
    IF Len(h) > MAX_HISTORY * 2 THEN SliceLast(h, MAX_HISTORY) ELSE h

\* if (history.length > MAX_HISTORY * 2) history = history.slice(-MAX_HISTORY * 2)
MemTruncate(h) ==
    IF Len(h) > MAX_HISTORY * 2 THEN SliceLast(h, MAX_HISTORY * 2) ELSE h

\* updateHistory(userId, userMsg, assistantReply): the Map it leaves
MemUpdateHistory(c, u, userMsg, assistantReply, t) ==
    LET got == MemGetHistory(c, u, t)
        pushed == got.history \o <<Turn("user", userMsg),
                                   Turn("assistant", assistantReply)>>
    IN  CleanExpiredCache(
            MapSet(got.chatCache, u,
                   [history |-> MemTruncate(pushed), expireAt |-> t + CACHE_TTL]),
            t)

MemInFlight(r) == mem.req[r].pc = "ai"

MemFreeSlot ==
    CHOOSE r \in Reqs : ~MemInFlight(r) /\ (r = "r1" \/ MemInFlight("r1"))

memFrame == <<wc, trimCall, d1, hs>>

\* A text message of user u arrives; the handler runs getHistory and
\* chatWithOpenAI builds its messages from the history returned.
MemReceive(r, u) ==
    /\ \E q \in Reqs : ~MemInFlight(q)
    /\ r = MemFreeSlot
    /\ mem.msgCount["u1"] + mem.msgCount["u2"] < MaxMemMsgs
    /\ LET got == MemGetHistory(mem.chatCache, u, mem.now)
       IN  mem' = [mem EXCEPT
                     !.msgCount[u] = @ + 1,
                     !.chatCache = got.chatCache,
                     !.req[r] = [pc |-> "ai", user |-> u,
                                 msg |-> mem.msgCount[u] + 1,
                                 history |-> got.history,
                                 found |-> Found(mem.chatCache, u, mem.now)]]
    /\ UNCHANGED hybridVars
    /\ UNCHANGED memFrame

\* The provider call returns; the handler runs updateHistory, the sweep
\* included, and returns the Response.
MemAiReply(r) ==
    /\ MemInFlight(r)
    /\ \E outcome \in AiOutcomes :
         LET u == mem.req[r].user
             userMsg == UserText(u, mem.req[r].msg)
             reply == ReplyText(outcome, u, mem.req[r].msg)
             continued == /\ u \in DOMAIN mem.written
                          /\ mem.now - mem.written[u] < CACHE_TTL
         IN  /\ outcome = "ok" \/ mem.envSteps < MaxMemSteps
             /\ mem' = [mem EXCEPT
                          !.envSteps = @ + (IF outcome = "ok" THEN 0 ELSE 1),
                          !.chatCache = MemUpdateHistory(mem.chatCache, u,
                                            userMsg, reply, mem.now),
                          !.req[r] = MemIdle,
                          !.log[u] = @ \o <<Turn("user", userMsg),
                                            Turn("assistant", reply)>>,
                          !.written = MapSet(mem.written, u, mem.now),
                          !.streak[u] = IF continued THEN @ + 1 ELSE 1]
    /\ UNCHANGED hybridVars
    /\ UNCHANGED memFrame

MemTick ==
    /\ mem.envSteps < MaxMemSteps
    /\ mem' = [mem EXCEPT !.envSteps = @ + 1, !.now = @ + MemTickMs]
    /\ UNCHANGED hybridVars
    /\ UNCHANGED memFrame

\* The idle instance is discarded and a new one starts with an empty Map.
MemRecycle ==
    /\ mem.envSteps < MaxMemSteps
    /\ \A r \in Reqs : ~MemInFlight(r)
    /\ mem' = [mem EXCEPT !.envSteps = @ + 1,
                          !.chatCache = EmptyMap,
                          !.req = [r \in Reqs |-> MemIdle],
                          !.log = [u \in Users |-> <<>>],
                          !.written = EmptyMap,
                          !.streak = [u \in Users |-> 0]]
    /\ UNCHANGED hybridVars
    /\ UNCHANGED memFrame

MemNext ==
    \/ \E r \in Reqs, u \in Users : MemReceive(r, u)
    \/ \E r \in Reqs : MemAiReply(r)
    \/ MemTick
    \/ MemRecycle

MemSpec == MemInit /\ [][MemNext]_vars

\* ---------------------------------------------------------------------
\* The GET handshake of the four workers
\* ---------------------------------------------------------------------
\* Strings are sequences of character codes; the codes 0..9 are the digits.
Variants == {"worker.js", "workerWithChat.js", "part_000", "part_001"}

\* Math.floor(Date.now() / 1000) at the time of the handshake
HsNowSec == 1200

WECHAT_TOKEN == <<11, 12>>

\* timestamps 200, 300 and 301 seconds old, and one that is no number
HsTimestamps == { <<1, 0, 0, 0>>, <<9, 0, 0>>, <<8, 9, 9>>, <<13>> }

HsNonces == { <<5>>, <<14, 2>> }

HsEchostr == <<15, 16>>

RECURSIVE LexLess(_, _)
\* a < b for strings, by code units
LexLess(a, b) ==
    IF b = <<>> THEN FALSE
    ELSE IF a = <<>> THEN TRUE
    ELSE IF a[1] # b[1] THEN a[1] < b[1]
    ELSE LexLess(Tail(a), Tail(b))

\* the place of list[i] in [...].sort() (equal strings keep their order)
SortRank(list, i) ==
    Cardinality({j \in 1..Len(list) :
                    \/ LexLess(list[j], list[i])
                    \/ list[j] = list[i] /\ j < i}) + 1

\* Array.prototype.sort() with the default order
Sort(list) ==
    [k \in 1..Len(list) |->
        list[CHOOSE i \in 1..Len(list) : SortRank(list, i) = k]]

RECURSIVE Join(_)
\* Array.prototype.join("")
Join(list) == IF list = <<>> THEN <<>> ELSE list[1] \o Join(Tail(list))

\* crypto.subtle.digest("SHA-1", ...) in hex: a value that stands for the
\* digest of the text and of no other text
Sha1Hex(text) == [sha1 |-> text]

RECURSIVE DigitsValue(_, _)
DigitsValue(text, acc) ==
    IF text = <<>> \/ text[1] > 9 THEN acc
    ELSE DigitsValue(Tail(text), 10 * acc + text[1])

\* parseInt(timestamp, 10)
parseInt(text) ==
    IF text = <<>> \/ text[1] > 9 THEN [isNaN |-> TRUE, value |-> 0]
    ELSE [isNaN |-> FALSE, value |-> DigitsValue(text, 0)]

Abs(x) == IF x < 0 THEN 0 - x ELSE x

isTimestampValid(timestamp, maxAgeSeconds) ==
    /\ timestamp # <<>>
    /\ ~parseInt(timestamp).isNaN
    /\ Abs(HsNowSec - parseInt(timestamp).value) <= maxAgeSeconds

\* a JavaScript boolean, and a promise that resolves to one
JsBoolean(b) == [kind |-> "boolean", value |-> b]

JsPromise(b) == [kind |-> "promise", value |-> b]

\* checkSignature returns a promise of the comparison
checkSignature(signature, timestamp, nonce, token) ==
    JsPromise(Sha1Hex(Join(Sort(<<token, timestamp, nonce>>))) = signature)

\* await v
Await(v) == IF v.kind = "promise" THEN JsBoolean(v.value) ELSE v

\* the condition of an if statement: an object, a promise included, is truthy
Truthy(v) == IF v.kind = "boolean" THEN v.value ELSE TRUE

\* which workers test the timestamp before the signature
ChecksTimestamp(variant) == variant # "workerWithChat.js"

\* which workers await the promise of checkSignature
AwaitsSignature(variant) == variant # "workerWithChat.js"

\* the signatures a caller sends: the right one, the digest of the
\* unsorted concatenation, the digest of the empty text
HsSignatures(token, timestamp, nonce) ==
    { Sha1Hex(Join(Sort(<<token, timestamp, nonce>>))),
      Sha1Hex(Join(<<token, timestamp, nonce>>)),
      Sha1Hex(<<>>) }

HsResponse(status, body) == [status |-> status, body |-> body]

HsInit ==
    /\ HybridOff
    /\ wc = NoCall
    /\ trimCall = NoCall
    /\ mem = NoCall
    /\ d1 = NoCall
    /\ \E variant \in Variants, crawler \in BOOLEAN,
          timestamp \in HsTimestamps, nonce \in HsNonces :
         \E signature \in HsSignatures(WECHAT_TOKEN, timestamp, nonce) :
            hs = [pc |-> "recv", variant |-> variant, crawler |-> crawler,
                  signature |-> signature, timestamp |-> timestamp,
                  nonce |-> nonce, echostr |-> HsEchostr,
                  response |-> HsResponse(0, <<>>)]

hsFrame == <<wc, trimCall, mem, d1>>

\* fetch and handleGetRequest up to the Response or to the await of the
\* digest
HsReceive ==
    /\ hs.pc = "recv"
    /\ LET check == checkSignature(hs.signature, hs.timestamp, hs.nonce,
                                   WECHAT_TOKEN)
       IN  hs' = IF hs.crawler
                 THEN [hs EXCEPT !.pc = "done",
                                 !.response = HsResponse(403, <<"Forbidden">>)]
                 ELSE IF ChecksTimestamp(hs.variant)
                         /\ ~isTimestampValid(hs.timestamp, 300)
                 THEN [hs EXCEPT !.pc = "done",
                          !.response = HsResponse(403, <<"Invalid timestamp">>)]
                 ELSE IF AwaitsSignature(hs.variant)
                 THEN [hs EXCEPT !.pc = "digest"]
                 ELSE IF Truthy(check)
                 THEN [hs EXCEPT !.pc = "done",
                                 !.response = HsResponse(200, hs.echostr)]
                 ELSE [hs EXCEPT !.pc = "done",
                          !.response = HsResponse(403, <<"Invalid signature">>)]
    /\ UNCHANGED hybridVars
    /\ UNCHANGED hsFrame

\* the digest resolves and handleGetRequest resumes after its await
HsDigestDone ==
    /\ hs.pc = "digest"
    /\ LET check == checkSignature(hs.signature, hs.timestamp, hs.nonce,
                                   WECHAT_TOKEN)
       IN  hs' = IF Truthy(Await(check))
                 THEN [hs EXCEPT !.pc = "done",
                                 !.response = HsResponse(200, hs.echostr)]
                 ELSE [hs EXCEPT !.pc = "done",
                          !.response = HsResponse(403, <<"Invalid signature">>)]
    /\ UNCHANGED hybridVars
    /\ UNCHANGED hsFrame

HsNext == HsReceive \/ HsDigestDone

HsSpec == HsInit /\ [][HsNext]_vars

\* ---------------------------------------------------------------------
\* The hybrid worker about to record a turn, with records on either side
\* of their expireAt and at it
\* ---------------------------------------------------------------------
SweepNow == 2 * CACHE_TTL

\* a record past its expireAt, one due at this millisecond, one still live
SweepExpiries == {SweepNow - TickMs, SweepNow, SweepNow + TickMs}

\* the record the first exchange of u left: synced when a namespace is bound
SweepRecord(u, expireAt, bound) ==
    [history |-> <<Turn("user", UserText(u, 1)),
                   Turn("assistant", ReplyText("ok", u, 1))>>,
     expireAt |-> expireAt,
     kvVersion |-> IF bound THEN 2 ELSE 0]

\* a request of u waiting for the provider: it was served from u's record
\* while that was live, or found neither a record nor a KV entry
SweepRequest(u, c, bound) ==
    IF u \in DOMAIN c
    THEN [IdleReq EXCEPT !.pc = "ai", !.user = u, !.msg = 2, !.kind = "text",
                         !.history = c[u].history, !.src = "local",
                         !.found = "live", !.recAt = 1]
    ELSE [IdleReq EXCEPT !.pc = "ai", !.user = u, !.msg = 1, !.kind = "text",
                         !.src = "empty",
                         !.resp = IF bound THEN [NoResp EXCEPT !.status = "ok"]
                                  ELSE NoResp]

SweepInit ==
    /\ wc = NoCall
    /\ trimCall = NoCall
    /\ mem = NoCall
    /\ d1 = NoCall
    /\ hs = NoCall
    /\ now = SweepNow
    /\ writes = <<>>
    /\ envSteps = 0
    /\ putsClean = [u \in Users |-> TRUE]
    /\ preCache = NoPre
    /\ syncFailed = {}
    /\ \E bound \in BOOLEAN, u \in Users,
          e \in UNION {[S -> SweepExpiries] : S \in SUBSET Users} :
         LET c == [v \in DOMAIN e |-> SweepRecord(v, e[v], bound)]
         IN  /\ kvBound = bound
             /\ chatCache = c
             /\ kv = IF bound
                     THEN [v \in DOMAIN e |-> JSONStringify(c[v].history)]
                     ELSE EmptyMap
             /\ lastPut = IF bound
                          THEN [v \in DOMAIN e |->
                                  [text |-> JSONStringify(c[v].history),
                                   history |-> c[v].history]]
                          ELSE EmptyMap
             /\ req = [r \in Reqs |-> IF r = "r1" THEN SweepRequest(u, c, bound)
                                      ELSE IdleReq]
             /\ msgCount = [v \in Users |-> (IF v \in DOMAIN e THEN 1 ELSE 0)
                                            + (IF v = u THEN 1 ELSE 0)]
             /\ recorded = [v \in Users |-> IF v \in DOMAIN e THEN 1 ELSE 0]
             /\ lastRecorded = [v \in DOMAIN e |->
                                  [history |-> c[v].history,
                                   expireAt |-> c[v].expireAt]]

SweepNext == \E r \in Reqs : AiReply(r)

SweepSpec == SweepInit /\ [][SweepNext]_vars

\* ---------------------------------------------------------------------
\* worker.js: the handler that keeps the history in a D1 table
\* ---------------------------------------------------------------------
\* text messages received by the D1 worker in one behaviour
MaxD1Msgs == 3
\* parseInt(env.CHAT_HISTORY_LIMIT) || 4, with the variable not set
HISTORY_LIMIT_DEFAULT == 4

D1Idle == [pc |-> "idle", user |-> "u1", msg |-> 0, history |-> <<>>,
           reply |-> <<>>]

D1Init ==
    /\ HybridOff
    /\ wc = NoCall
    /\ trimCall = NoCall
    /\ mem = NoCall
    /\ hs = NoCall
    /\ \E hasD1Storage \in BOOLEAN :
         d1 = [pc |-> "run", hasD1Storage |-> hasD1Storage,
               rows |-> <<>>,
               pending |-> {},
               req |-> [r \in Reqs |-> D1Idle],
               msgCount |-> [u \in Users |-> 0]]

\* a row of chat_history; its id is its place in the table
Row(userId, role, content) ==
    [user_id |-> userId, role |-> role, content |-> content]

RowsOf(rows, userId) == SelectSeq(rows, LAMBDA row : row.user_id = userId)

\* SELECT role, content ... WHERE user_id = ? ORDER BY id DESC LIMIT ?
SelectLatest(rows, userId, limit) ==
    LET desc == Reverse(RowsOf(rows, userId))
    IN  SubSeq(desc, 1, IF Len(desc) < limit THEN Len(desc) ELSE limit)

\* getHistory(userId, db, limit): the rows reversed and mapped to turns, or
\* [] when the query fails
D1GetHistory(rows, userId, limit, failed) ==
    IF failed THEN <<>>
    ELSE LET results == Reverse(SelectLatest(rows, userId, limit))
         IN  [i \in 1..Len(results) |->
                 Turn(results[i].role, results[i].content)]

D1InFlight(r) == d1.req[r].pc \in {"get", "ai"}

D1FreeSlot ==
    CHOOSE r \in Reqs : ~D1InFlight(r) /\ (r = "r1" \/ D1InFlight("r1"))

d1Frame == <<wc, trimCall, mem, hs>>

\* A text message of user u arrives; the handler awaits initDatabase and
\* the query of getHistory (with no database it goes on with []).
D1Receive(r, u) ==
    /\ \E q \in Reqs : ~D1InFlight(q)
    /\ r = D1FreeSlot
    /\ d1.msgCount["u1"] + d1.msgCount["u2"] < MaxD1Msgs
    /\ d1' = [d1 EXCEPT
                !.msgCount[u] = @ + 1,
                !.req[r] = [D1Idle EXCEPT
                              !.pc = IF d1.hasD1Storage THEN "get" ELSE "ai",
                              !.user = u, !.msg = d1.msgCount[u] + 1]]
    /\ UNCHANGED hybridVars
    /\ UNCHANGED d1Frame

\* The database answers the query of getHistory, or the query fails.
D1Query(r) ==
    /\ d1.req[r].pc = "get"
    /\ \E failed \in BOOLEAN :
         d1' = [d1 EXCEPT
                  !.req[r].pc = "ai",
                  !.req[r].history =
                      D1GetHistory(d1.rows, d1.req[r].user,
                                   HISTORY_LIMIT_DEFAULT, failed)]
    /\ UNCHANGED hybridVars
    /\ UNCHANGED d1Frame

\* The provider call returns; the handler calls saveMessage for the user
\* message and for the reply without awaiting either, and returns the
\* Response. Each call has sent its INSERT by then.
D1AiReply(r) ==
    /\ d1.req[r].pc = "ai"
    /\ \E outcome \in AiOutcomes :
         LET u == d1.req[r].user
             n == d1.req[r].msg
             reply == ReplyText(outcome, u, n)
             inserts == {[row |-> Row(u, "user", UserText(u, n)), seq |-> 1],
                         [row |-> Row(u, "assistant", reply), seq |-> 2]}
         IN  d1' = [d1 EXCEPT
                      !.req[r] = [D1Idle EXCEPT !.pc = "done", !.user = u,
                                                !.msg = n, !.reply = reply],
                      !.pending = IF d1.hasD1Storage THEN @ \cup inserts ELSE @]
    /\ UNCHANGED hybridVars
    /\ UNCHANGED d1Frame

\* the exchange a row belongs to
ExchangeOf(row) == <<row.content[2], row.content[3]>>

\* The database executes a pending INSERT. The statements of one
\* invocation are executed in the order they were sent; those of different
\* invocations in any order.
D1Insert(p) ==
    /\ p \in d1.pending
    /\ \A q \in d1.pending :
          ExchangeOf(q.row) = ExchangeOf(p.row) => q.seq >= p.seq
    /\ d1' = [d1 EXCEPT !.rows = Append(@, p.row), !.pending = @ \ {p}]
    /\ UNCHANGED hybridVars
    /\ UNCHANGED d1Frame

D1Next ==
    \/ \E r \in Reqs, u \in Users : D1Receive(r, u)
    \/ \E r \in Reqs : D1Query(r)
    \/ \E r \in Reqs : D1AiReply(r)
    \/ \E p \in d1.pending : D1Insert(p)

D1Spec == D1Init /\ [][D1Next]_vars

\* ---------------------------------------------------------------------
\* Steps and observations the properties speak about
\* ---------------------------------------------------------------------
\* this step is an updateHistoryHybrid call for u
RecordTurnStep(u) == recorded'[u] = recorded[u] + 1

\* this step is the start of a getHistoryHybrid call for u
LoadContextStep(u) == msgCount'[u] = msgCount[u] + 1

\* the handler invocation a LoadContextStep starts
Started(r) == req'[r] # req[r]

\* this step starts a put of u's new history
PutStarted(u) ==
    /\ Len(writes') = Len(writes) + 1
    /\ SubSeq(writes', 1, Len(writes)) = Older(writes, u)
    /\ writes'[Len(writes')].user = u
    /\ writes'[Len(writes')].stage = "sent"
    /\ u \in DOMAIN chatCache'
    /\ writes'[Len(writes')].text = JSONStringify(chatCache'[u].history)

\* the sync mark updateHistoryHybrid reads at its start
MarkAtStart(u) == IF u \in DOMAIN chatCache THEN chatCache[u].kvVersion ELSE 0

PendingPuts(u) == {i \in DOMAIN writes : writes[i].user = u}

\* ---------------------------------------------------------------------
\* C1: after every updateHistoryHybrid call for a user, that user's record
\* exists and its history holds at most MAX_HISTORY_MESSAGES entries,
\* whatever loads, expiries and put completions came before.
\* ---------------------------------------------------------------------
C1_BoundAfterRecordTurn ==
    [][\A u \in Users :
          RecordTurnStep(u) =>
              /\ u \in DOMAIN chatCache'
              /\ Len(chatCache'[u].history) <= MAX_HISTORY_MESSAGES]_vars

\* a third call for one user has dropped the oldest pair
C1_Witness ==
    \E u \in Users :
        /\ recorded[u] = 3
        /\ u \in DOMAIN chatCache
        /\ Len(chatCache[u].history) = MAX_HISTORY_MESSAGES
        /\ chatCache[u].history[1] = Turn("user", UserText(u, 2))

C3_WriteEveryNewPair ==
    [][\A u \in Users :
          (/\ RecordTurnStep(u)
           /\ kvBound
           /\ u \in DOMAIN chatCache
              => /\ chatCache[u].kvVersion <= Len(chatCache[u].history)
                 /\ Len(chatCache[u].history) <= MAX_HISTORY_MESSAGES)
          => PutStarted(u)]_vars

\* ---------------------------------------------------------------------
\* C4: after a recycle at a moment when no put is in flight and every put
\* so far succeeded in start order, a getHistoryHybrid for a user who has
\* recorded nothing since returns the history the user's unexpired record
\* held just before the recycle.
\* ---------------------------------------------------------------------
C4_ContextSurvivesRecycle ==
    \A r \in Reqs :
        LET u == req[r].user
        IN  (/\ req[r].pc = "ai"
             /\ req[r].resp.status = "ok"
             /\ kvBound
             /\ preCache.clean
             /\ u \in DOMAIN preCache.cache
             /\ preCache.cache[u].kvVersion <= Len(preCache.cache[u].history)
             /\ recorded[u] = 0)
            => req[r].history = preCache.cache[u].history

\* ---------------------------------------------------------------------
\* C5: every record of the Map has kvVersion <= history.length.
\* ---------------------------------------------------------------------
C5_MarkWithinLength ==
    \A u \in DOMAIN chatCache :
        chatCache[u].kvVersion <= Len(chatCache[u].history)

\* ---------------------------------------------------------------------
\* C6: a getHistoryHybrid that finds a record whose expireAt is before the
\* current time does not return from memory: it deletes the record and
\* either suspends on the KV read or, with no namespace bound, returns the
\* empty history. No sweep is needed for that.
\* ---------------------------------------------------------------------
C6_LazyExpiryOnRead ==
    [][\A u \in Users, r \in Reqs :
          (/\ LoadContextStep(u)
           /\ Started(r)
           /\ u \in DOMAIN chatCache
           /\ chatCache[u].expireAt < now)
          => /\ u \notin DOMAIN chatCache'
             /\ kvBound => req'[r].pc = "get"
             /\ ~kvBound => req'[r].pc = "ai" /\ req'[r].history = <<>>]_vars

\* a read found a record past its expireAt, still in the Map, and went to
\* the KV namespace
C6_Witness ==
    \E r \in Reqs :
        /\ req[r].found = "past"
        /\ req[r].pc = "get"
        /\ req[r].user \notin DOMAIN chatCache

\* ---------------------------------------------------------------------
\* C7: an updateHistoryHybrid call that finds a record whose expireAt is
\* before the current time does not build on it: the record it stores holds
\* only the new pair, with mark 0.
\* ---------------------------------------------------------------------
C7_ExpiredBaseIgnoredOnWrite ==
    [][\A u \in Users :
          (/\ RecordTurnStep(u)
           /\ u \in DOMAIN chatCache
           /\ chatCache[u].expireAt < now)
          => /\ Len(chatCache'[u].history) = 2
             /\ chatCache'[u].kvVersion = 0]_vars

\* ---------------------------------------------------------------------
\* C8: when the KV read fails, finds no entry or yields a text that is not
\* a JSON array, getHistoryHybrid returns the empty history without an
\* exception, sets no record and starts no put.
\* ---------------------------------------------------------------------
\* the texts of the model that are not JSON arrays
NonListTexts == { <<>>, <<Tok("[")>>, <<Tok("{"), Tok("}")>> }

FailedRead(resp) ==
    \/ resp.status = "error"
    \/ resp.status = "ok" /\ ~resp.present
    \/ resp.status = "ok" /\ resp.present /\ resp.data \in NonListTexts

C8_FailOpenRead ==
    [][\A r \in Reqs :
          (req[r].pc = "got" /\ req'[r].pc # "got" /\ FailedRead(req[r].resp))
          => /\ req'[r].pc = "ai"
             /\ req'[r].history = <<>>
             /\ chatCache' = chatCache
             /\ writes' = writes]_vars

\* one request got an error from the KV read, another a text that does not
\* parse, and both went on with the empty history
C8_Witness ==
    \E r1, r2 \in Reqs :
        /\ req[r1].pc = "ai" /\ req[r1].resp.status = "error"
        /\ req[r1].history = <<>>
        /\ req[r2].pc = "ai" /\ req[r2].resp.status = "ok"
        /\ req[r2].resp.present /\ req[r2].resp.data \in NonListTexts
        /\ req[r2].history = <<>>
        /\ req[r2].user \notin DOMAIN chatCache

\* ---------------------------------------------------------------------
\* C9: a getHistoryHybrid for u that starts after an updateHistoryHybrid
\* for u has returned, before the expireAt that call set and with no later
\* call for u, returns at once the history that call stored.
\* ---------------------------------------------------------------------
C9_ReadYourWrites ==
    [][\A u \in Users, r \in Reqs :
          (/\ LoadContextStep(u)
           /\ Started(r)
           /\ u \in DOMAIN lastRecorded
           /\ now < lastRecorded[u].expireAt)
          => /\ req'[r].pc = "ai"
             /\ req'[r].history = lastRecorded[u].history]_vars

\* ---------------------------------------------------------------------
\* C10: two requests of one user overlapped and both updateHistoryHybrid
\* calls have returned, at least one of them having started a put; once no
\* put of the user is in flight (every put having succeeded, in start
\* order), the Map record and the KV entry hold the history the later call
\* stored.
\* ---------------------------------------------------------------------
C10_LaterCallWins ==
    \A r1, r2 \in Reqs :
        LET u == req[r1].user
        IN  (/\ r1 # r2
             /\ req[r1].pc = "done" /\ req[r2].pc = "done"
             /\ req[r2].user = u
             /\ req[r1].msg \in req[r2].overlap
                  \/ req[r2].msg \in req[r1].overlap
             /\ req[r1].order < req[r2].order
             /\ req[r2].order = recorded[u]
             /\ req[r1].wrote \/ req[r2].wrote
             /\ kvBound
             /\ PendingPuts(u) = {}
             /\ putsClean[u])
            => /\ u \in DOMAIN chatCache
               /\ chatCache[u].history = lastRecorded[u].history
               /\ u \in DOMAIN kv
               /\ kv[u] = JSONStringify(lastRecorded[u].history)

\* ---------------------------------------------------------------------
\* C11: the put is fire-and-forget. While a put is in flight (sent, or
\* stored with its then-callback still to run), the handler invocation that
\* started it has already returned its Response (status 200), and the
\* promise of every put was handed to ctx.waitUntil.
\* ---------------------------------------------------------------------
\* the handler invocation that started the put
StartedBy(w, r) ==
    /\ req[r].pc # "idle"
    /\ req[r].user = w.user
    /\ req[r].msg = w.msg

C11_FireAndForget ==
    \A i \in DOMAIN writes :
        /\ writes[i].waited
        /\ \A r \in Reqs :
              StartedBy(writes[i], r)
                  => req[r].pc = "done" /\ req[r].status = 200

\* the Response of a request is out while its put has not reached the KV
\* namespace yet
C11_Witness ==
    \E i \in DOMAIN writes, r \in Reqs :
        /\ StartedBy(writes[i], r)
        /\ writes[i].stage = "sent"
        /\ writes[i].waited
        /\ req[r].pc = "done"
        /\ req[r].wrote
        /\ req[r].status = 200

\* ---------------------------------------------------------------------
\* C12: when the then-callback of a put of a history h for u runs and u has
\* a record, the record's kvVersion becomes the length of h; when a put
\* fails, the Map and the handler invocations are left as they were; and
\* the first updateHistoryHybrid call for u after the newest put of u
\* failed starts a put again (stated for records whose mark does not exceed their length
\* and whose length is within the limit).
\* ---------------------------------------------------------------------
C12_PutOutcome ==
    [][/\ \A i \in DOMAIN writes :
            /\ (WriteThen(i) /\ writes[i].user \in DOMAIN chatCache)
                 => chatCache'[writes[i].user].kvVersion = writes[i].len
            /\ KvPutFail(i) => (chatCache' = chatCache /\ req' = req)
       /\ \A u \in Users :
            (/\ RecordTurnStep(u)
             /\ u \in syncFailed
             /\ u \in DOMAIN chatCache
                => /\ chatCache[u].kvVersion <= Len(chatCache[u].history)
                   /\ Len(chatCache[u].history) <= MAX_HISTORY_MESSAGES)
            => PutStarted(u)]_vars

\* ---------------------------------------------------------------------
\* C13: every history in the Map and every text handed to kvNamespace.put
\* has even length and alternates user, assistant from a user turn on, so
\* the slice never leaves an assistant turn without its user turn. (Every
\* list a KV entry holds at the start is itself a list of whole pairs.)
\* ---------------------------------------------------------------------
WholePairs(h) ==
    /\ Len(h) % 2 = 0
    /\ \A i \in 1..Len(h) :
          h[i].role = IF i % 2 = 1 THEN "user" ELSE "assistant"

C13_WholePairs ==
    /\ \A u \in DOMAIN chatCache : WholePairs(chatCache[u].history)
    /\ \A i \in DOMAIN writes :
          /\ JSONParse(writes[i].text).isArray
          /\ WholePairs(JSONParse(writes[i].text).value)

\* a third call has cut the history at a pair boundary and the cut history
\* is on its way to the KV namespace
C13_Witness ==
    \E u \in Users, i \in DOMAIN writes :
        /\ recorded[u] = 3
        /\ u \in DOMAIN chatCache
        /\ Len(chatCache[u].history) = MAX_HISTORY_MESSAGES
        /\ chatCache[u].history[1].role = "user"
        /\ chatCache[u].history[1].content[1] = "msg"
        /\ writes[i].user = u
        /\ writes[i].stage = "sent"
        /\ writes[i].text = JSONStringify(chatCache[u].history)

\* ---------------------------------------------------------------------
\* C14: the history getHistoryHybrid returns to the handler, and the
\* history of every record of the Map, holds at most MAX_HISTORY_MESSAGES
\* entries, also when the KV entry holds a longer list.
\* ---------------------------------------------------------------------
C14_LoadWithinLimit ==
    /\ \A r \in Reqs :
          req[r].pc = "ai" => Len(req[r].history) <= MAX_HISTORY_MESSAGES
    /\ \A u \in DOMAIN chatCache :
          Len(chatCache[u].history) <= MAX_HISTORY_MESSAGES

\* ---------------------------------------------------------------------
\* C15: every text message is answered with a 200 Response carrying a reply
\* text, whether the provider answered, answered with a non-success status
\* or the fetch failed; no invocation ends in an exception; and the
\* updateHistoryHybrid call of the request stored, as the last two entries
\* and once only, the user message and the very reply text of the Response.
\* ---------------------------------------------------------------------
Occurrences(h, content) == Cardinality({i \in 1..Len(h) : h[i].content = content})

C15_ReplyRecordedAsSent ==
    \A r \in Reqs :
        LET u == req[r].user
            n == req[r].msg
        IN  /\ req[r].pc # "threw"
            /\ (req[r].pc = "done" /\ req[r].kind = "text") =>
                  /\ req[r].status = 200
                  /\ req[r].reply \in {ReplyText(o, u, n) : o \in AiOutcomes}
            /\ (req[r].pc = "done" /\ req[r].kind = "text"
                   /\ req[r].order = recorded[u]
                   /\ u \in DOMAIN lastRecorded) =>
                  LET h == lastRecorded[u].history
                  IN  /\ Len(h) >= 2
                      /\ h[Len(h) - 1] = Turn("user", UserText(u, n))
                      /\ h[Len(h)] = Turn("assistant", req[r].reply)
                      /\ Occurrences(h, UserText(u, n)) = 1
                      /\ Occurrences(h, req[r].reply) = 1

\* one request was answered with the text of a failed fetch, another with
\* the text of a non-success status, and the Map holds both as assistant turns
C15_Witness ==
    \E r1, r2 \in Reqs :
        LET u == req[r1].user
        IN  /\ req[r1].pc = "done" /\ req[r2].pc = "done"
            /\ req[r2].user = u
            /\ req[r1].reply = ReplyText("transport", u, req[r1].msg)
            /\ req[r2].reply = ReplyText("status", u, req[r2].msg)
            /\ u \in DOMAIN chatCache
            /\ Occurrences(chatCache[u].history, req[r1].reply) = 1
            /\ Occurrences(chatCache[u].history, req[r2].reply) = 1

\* ---------------------------------------------------------------------
\* C16: the messages sent to the provider are the system prompt, then the
\* stored history in stored order, then the new user message; the user
\* message occurs once, as the last item, and is not part of the history
\* handed to chatWithOpenAI. Stated for the worker that keeps its history
\* in KV (workerWithChat.js).
\* ---------------------------------------------------------------------
C16_PromptThenHistoryThenMessage ==
    wc.inv.pc = "ai" =>
        LET userMsg == UserText(wc.inv.user, wc.inv.msg)
        IN  /\ wc.inv.messages
                  = <<SystemTurn>> \o wc.inv.stored \o <<Turn("user", userMsg)>>
            /\ Occurrences(wc.inv.messages, userMsg) = 1
            /\ Occurrences(wc.inv.history, userMsg) = 0

\* ---------------------------------------------------------------------
\* C17: a POST whose body is no platform message is answered with a
\* rejection (status 400), and handling it reads and changes neither the
\* Map nor the KV namespace, starts no put and calls no provider.
\* ---------------------------------------------------------------------
C17_MalformedRejected ==
    [][\A r \in Reqs :
          (req[r] # req'[r] /\ req'[r].kind = "malformed")
          => /\ req'[r].pc = "done"
             /\ req'[r].status = 400
             /\ UNCHANGED <<chatCache, kv, writes, recorded, msgCount>>]_vars

\* ---------------------------------------------------------------------
\* C18: with no KV namespace bound the worker is a pure in-memory cache:
\* no get is awaited and no put is started, the KV namespace stays as it
\* was, getHistoryHybrid returns the history of the unexpired record or the
\* empty history (also for an expired record not yet swept), and the records
\* keep mark 0 and at most MAX_HISTORY_MESSAGES entries.
\* ---------------------------------------------------------------------
C18_NoBindingInMemoryOnly ==
    ~kvBound =>
        /\ kv = EmptyMap
        /\ writes = <<>>
        /\ \A r \in Reqs :
              /\ req[r].pc \notin {"get", "got"}
              /\ req[r].resp = NoResp
              /\ req[r].pc = "done" => ~req[r].wrote
              /\ req[r].pc = "ai" =>
                    \/ req[r].src = "local" /\ req[r].found = "live"
                    \/ /\ req[r].src = "empty"
                       /\ req[r].found # "live"
                       /\ req[r].history = <<>>
        /\ \A u \in DOMAIN chatCache :
              /\ chatCache[u].kvVersion = 0
              /\ Len(chatCache[u].history) <= MAX_HISTORY_MESSAGES

\* without a binding, a request found its user's record expired and went
\* on with the empty history, after two calls had filled that record
C18_Witness ==
    /\ ~kvBound
    /\ \E r \in Reqs :
          /\ req[r].pc = "ai"
          /\ req[r].found = "past"
          /\ req[r].src = "empty"
          /\ req[r].history = <<>>
          /\ recorded[req[r].user] = 2
          /\ req[r].user \notin DOMAIN chatCache

\* ---------------------------------------------------------------------
\* C19: trimHistory(history, limit) returns the last limit entries of an
\* array in their order, the whole array when it has at most limit entries
\* (the empty array for limit 0), and the empty array for a value that is
\* not an array.
\* ---------------------------------------------------------------------
\* the last n entries of h, or h if it is shorter
LastEntries(h, n) ==
    LET k == IF Len(h) < n THEN Len(h) ELSE n
    IN  [i \in 1..k |-> h[Len(h) - k + i]]

C19_TrimKeepsLastEntries ==
    trimCall.pc \in {"once", "twice"} =>
        IF trimCall.history.isArray
        THEN /\ trimCall.out = LastEntries(trimCall.history.value, trimCall.limit)
             /\ trimCall.limit = 0 => trimCall.out = <<>>
        ELSE trimCall.out = <<>>

\* an array of four entries cut to its last two
C19_Witness ==
    /\ trimCall.pc = "once"
    /\ trimCall.history.isArray
    /\ Len(trimCall.history.value) = 4
    /\ trimCall.history.value[2] # trimCall.history.value[4]
    /\ trimCall.limit = 2
    /\ trimCall.out = <<trimCall.history.value[3], trimCall.history.value[4]>>

\* ---------------------------------------------------------------------
\* C20: trimHistory is idempotent: applied to its own result with the same
\* limit it returns that result.
\* ---------------------------------------------------------------------
C20_TrimIdempotent ==
    trimCall.pc = "twice" => trimCall.again = trimCall.out

\* the second call was given an array that the first had cut by two entries
C20_Witness ==
    /\ trimCall.pc = "twice"
    /\ trimCall.history.isArray
    /\ Len(trimCall.history.value) = trimCall.limit + 2
    /\ trimCall.limit >= 1
    /\ Len(trimCall.out) = trimCall.limit
    /\ trimCall.again = trimCall.out

\* ---------------------------------------------------------------------
\* C21: a getHistoryHybrid for u that finds no record in the Map and whose
\* KV read returned the text of the put the namespace applied last for u
\* returns, entry by entry and in the same order, the history the
\* updateHistoryHybrid call handed to JSON.stringify for that put, and sets
\* a record holding that same history.
\* ---------------------------------------------------------------------
C21_DurableRoundTrip ==
    [][\A r \in Reqs :
          LET u == req[r].user
          IN  (/\ req[r].pc = "got" /\ req'[r].pc # "got"
               /\ u \notin DOMAIN chatCache
               /\ req[r].resp.status = "ok" /\ req[r].resp.present
               /\ u \in DOMAIN lastPut
               /\ req[r].resp.data = lastPut[u].text)
              => /\ req'[r].pc = "ai"
                 /\ req'[r].history = lastPut[u].history
                 /\ u \in DOMAIN chatCache'
                 /\ chatCache'[u].history = lastPut[u].history]_vars

\* after a recycle, a read brought back the four turns two calls had
\* recorded and the second call's put had stored
C21_Witness ==
    \E r \in Reqs :
        LET u == req[r].user
        IN  /\ req[r].pc = "ai" /\ req[r].src = "kv"
            /\ recorded[u] = 0
            /\ u \in DOMAIN lastPut
            /\ req[r].resp.data = lastPut[u].text
            /\ Len(lastPut[u].history) = MAX_HISTORY_MESSAGES
            /\ lastPut[u].history[1] = Turn("user", UserText(u, 1))
            /\ lastPut[u].history[4].role = "assistant"
            /\ req[r].history = lastPut[u].history
            /\ u \in DOMAIN chatCache
            /\ chatCache[u].history = lastPut[u].history

\* ---------------------------------------------------------------------
\* C22: in the in-memory worker every history of the Map holds at most
\* 2 * MAX_HISTORY messages in whole user/assistant pairs, namely the
\* exchanges recorded last for the user: the last MAX_HISTORY of the
\* exchanges recorded each less than CACHE_TTL after the one before (fewer
\* if there were fewer). getHistory returns the empty history for a user
\* whose record was written more than CACHE_TTL ago, and the record's
\* history when it was written less than CACHE_TTL ago.
\* ---------------------------------------------------------------------
\* exchanges of u the Map is to hold
Kept(u) == IF mem.streak[u] < MAX_HISTORY THEN mem.streak[u] ELSE MAX_HISTORY

C22_MemHistory ==
    /\ [](\A u \in DOMAIN mem.chatCache :
            LET h == mem.chatCache[u].history
            IN  /\ Len(h) <= 8
                /\ WholePairs(h)
                /\ h = LastEntries(mem.log[u], 2 * Kept(u)))
    /\ [][\A r \in Reqs, u \in Users :
            (/\ mem'.msgCount[u] = mem.msgCount[u] + 1
             /\ mem'.req[r] # mem.req[r]
             /\ u \in DOMAIN mem.written)
            => /\ mem.now - mem.written[u] > CACHE_TTL
                    => mem'.req[r].history = <<>>
               /\ mem.now - mem.written[u] < CACHE_TTL
                    => /\ u \in DOMAIN mem.chatCache
                       /\ mem'.req[r].history = mem.chatCache[u].history
                       /\ mem'.req[r].history
                              = LastEntries(mem.log[u], 2 * Kept(u))]_vars

\* five exchanges of a user were recorded one after the other, so that the
\* Map held the last four, and one and a half TTL later a request of that
\* user found the record expired and got the empty history
C22_Witness ==
    \E r \in Reqs :
        LET u == mem.req[r].user
        IN  /\ mem.req[r].pc = "ai"
            /\ mem.req[r].found = "past"
            /\ mem.req[r].history = <<>>
            /\ mem.now - mem.written[u] > CACHE_TTL
            /\ Len(mem.log[u]) = 10
            /\ mem.streak[u] = 5
            /\ u \notin DOMAIN mem.chatCache

\* ---------------------------------------------------------------------
\* C23: in each of the four workers a GET handshake is answered with the
\* echostr and status 200 only if its signature is the SHA-1 digest of the
\* sorted concatenation of WECHAT_TOKEN, timestamp and nonce; a GET whose
\* signature is another value is answered with status 403 and not with the
\* echostr.
\* ---------------------------------------------------------------------
ExpectedSignature ==
    Sha1Hex(Join(Sort(<<WECHAT_TOKEN, hs.timestamp, hs.nonce>>)))

C23_HandshakeNeedsSignature ==
    hs.pc = "done" =>
        /\ (hs.response.status = 200 \/ hs.response.body = hs.echostr)
              => hs.signature = ExpectedSignature
        /\ hs.signature # ExpectedSignature
              => /\ hs.response.status = 403
                 /\ hs.response.body # hs.echostr

\* ---------------------------------------------------------------------
\* C24: updateHistoryHybrid(u, userMsg, assistantReply) sets u's record to
\* the last MAX_HISTORY_MESSAGES entries of the history of u's record before
\* the call (the empty history if there is none) followed by the user turn
\* and the assistant turn, with expireAt = now + CACHE_TTL and the kvVersion
\* the record had before the call (0 if there was none).
\* ---------------------------------------------------------------------
C24_RecordTurnEffect ==
    [][\A r \in Reqs :
          LET u == req[r].user
              before == IF u \in DOMAIN chatCache THEN chatCache[u].history
                        ELSE <<>>
              mark == IF u \in DOMAIN chatCache THEN chatCache[u].kvVersion
                      ELSE 0
          IN  (req[r].pc = "ai" /\ req'[r].pc = "done")
              => /\ u \in DOMAIN chatCache'
                 /\ chatCache'[u].history =
                        LastEntries(before \o
                            <<Turn("user", UserText(u, req[r].msg)),
                              Turn("assistant", req'[r].reply)>>,
                            MAX_HISTORY_MESSAGES)
                 /\ chatCache'[u].expireAt = now + CACHE_TTL
                 /\ chatCache'[u].kvVersion = mark]_vars

\* the second call on a record loaded from a two-turn KV entry has dropped
\* the two loaded turns and kept the mark of the load
C24_Witness ==
    \E r \in Reqs :
        LET u == req[r].user
        IN  /\ req[r].pc = "done" /\ req[r].kind = "text"
            /\ req[r].order = 2 /\ recorded[u] = 2
            /\ u \in DOMAIN chatCache
            /\ chatCache[u].kvVersion = 2
            /\ chatCache[u].expireAt = now + CACHE_TTL
            /\ chatCache[u].history =
                  <<Turn("user", UserText(u, 1)),
                    Turn("assistant", ReplyText("ok", u, 1)),
                    Turn("user", UserText(u, 2)),
                    Turn("assistant", req[r].reply)>>

\* ---------------------------------------------------------------------
\* C25: a getHistoryHybrid that found no unexpired record and whose KV read
\* yields the text of a list sets a record with that list as history,
\* expireAt = now + CACHE_TTL and kvVersion = the length of the list, and
\* returns the list; a getHistoryHybrid that finds an unexpired record
\* returns that record's history at once, without a KV read, and leaves the
\* Map as it is.
\* ---------------------------------------------------------------------
\* the lists whose text a KV entry of u can hold
KnownLists(u) ==
    {OldTurns(2), OldTurns(6)}
        \cup {lastPut[v].history : v \in DOMAIN lastPut \cap {u}}
        \cup {writes[i].history : i \in {j \in DOMAIN writes :
                                            writes[j].user = u}}

C25_ColdLoadAndHit ==
    [][/\ \A r \in Reqs : \A list \in KnownLists(req[r].user) :
            LET u == req[r].user
            IN  (/\ req[r].pc = "got" /\ req'[r].pc # "got"
                 /\ req[r].resp.status = "ok" /\ req[r].resp.present
                 /\ req[r].resp.data = JSONStringify(list))
                => /\ req'[r].pc = "ai"
                   /\ req'[r].history = list
                   /\ u \in DOMAIN chatCache'
                   /\ chatCache'[u] = [history |-> list,
                                       expireAt |-> now + CACHE_TTL,
                                       kvVersion |-> Len(list)]
       /\ \A r \in Reqs, u \in Users :
            (/\ LoadContextStep(u)
             /\ Started(r)
             /\ u \in DOMAIN chatCache
             /\ chatCache[u].expireAt > now)
            => /\ req'[r].pc = "ai"
               /\ req'[r].history = chatCache[u].history
               /\ req'[r].resp = NoResp
               /\ chatCache' = chatCache]_vars

\* after a tick, one request has loaded the two-turn list of the KV entry
\* into a record, and a second request of the user was served from that
\* record
C25_Witness ==
    \E r, q \in Reqs :
        LET u == req[r].user
        IN  /\ r # q
            /\ req[r].pc = "ai" /\ req[r].src = "kv"
            /\ req[r].history = OldTurns(2)
            /\ now > 0
            /\ u \in DOMAIN chatCache
            /\ chatCache[u] = [history |-> OldTurns(2),
                               expireAt |-> now + CACHE_TTL, kvVersion |-> 2]
            /\ req[q].pc = "ai" /\ req[q].user = u
            /\ req[q].src = "local" /\ req[q].found = "live"
            /\ req[q].history = OldTurns(2)

\* ---------------------------------------------------------------------
\* C26: the updateHistoryHybrid call of a request extends the history
\* getHistoryHybrid returned to that request: when no other call for the
\* user ran since the request's getHistoryHybrid (here: no other request of
\* the user was in flight at any time since), the history it stores is the
\* last MAX_HISTORY_MESSAGES entries of the returned history followed by
\* the new pair, however much time has passed and whatever requests of
\* other users ran in between; and the call reads nothing from the KV
\* namespace.
\* ---------------------------------------------------------------------
C26_WriteExtendsContextRead ==
    [][\A r \in Reqs :
          LET u == req[r].user
          IN  (/\ req[r].pc = "ai" /\ req'[r].pc = "done"
               /\ recorded[u] = req[r].recAt
               /\ req[r].overlap = {}
               /\ \A q \in Reqs \ {r} : ~(InFlight(q) /\ req[q].user = u))
              => /\ u \in DOMAIN chatCache'
                 /\ chatCache'[u].history =
                        LastEntries(req[r].history \o
                            <<Turn("user", UserText(u, req[r].msg)),
                              Turn("assistant", req'[r].reply)>>,
                            MAX_HISTORY_MESSAGES)
                 /\ \A q \in Reqs : req'[q].pc = "get" => req[q].pc = "get"]_vars

\* ---------------------------------------------------------------------
\* C27: a getHistoryHybrid suspended on its KV read does not replace a
\* newer record: when an updateHistoryHybrid for the user has run since the
\* load started and the Map holds the record that call stored, the load,
\* resuming, leaves that record's history in the Map.
\* ---------------------------------------------------------------------
C27_LoadKeepsNewerRecord ==
    [][\A r \in Reqs :
          LET u == req[r].user
          IN  (/\ req[r].pc = "got" /\ req'[r].pc # "got"
               /\ recorded[u] > req[r].recAt
               /\ u \in DOMAIN chatCache
               /\ u \in DOMAIN lastRecorded
               /\ chatCache[u].history = lastRecorded[u].history)
              => /\ u \in DOMAIN chatCache'
                 /\ chatCache'[u].history = chatCache[u].history]_vars

\* ---------------------------------------------------------------------
\* C28: every updateHistoryHybrid call ends with the sweep: after the call
\* no record of the Map has expireAt at or before the current time, every
\* record of another user with expireAt after the current time is there
\* unchanged, the record just written is there, and the sweep touches the
\* KV namespace neither by a read nor by a write (the only put the call can
\* start is that of the user's new history).
\* ---------------------------------------------------------------------
C28_SweepAfterRecordTurn ==
    [][\A u \in Users :
          RecordTurnStep(u) =>
              /\ \A v \in DOMAIN chatCache' : chatCache'[v].expireAt > now
              /\ \A v \in DOMAIN chatCache \ {u} :
                    IF chatCache[v].expireAt > now
                    THEN v \in DOMAIN chatCache' /\ chatCache'[v] = chatCache[v]
                    ELSE v \notin DOMAIN chatCache'
              /\ u \in DOMAIN chatCache'
              /\ chatCache'[u].expireAt = now + CACHE_TTL
              /\ Len(chatCache'[u].history) >= 2
              /\ kv' = kv
              /\ \A q \in Reqs : req'[q].pc = "get" => req[q].pc = "get"
              /\ writes' = writes \/ PutStarted(u)]_vars

\* a call for one user has removed the record of the other, which was due
\* at the very millisecond of the call
C28_Witness ==
    \E u, v \in Users :
        /\ u # v
        /\ recorded[u] = 2
        /\ u \in DOMAIN chatCache
        /\ chatCache[u].expireAt = now + CACHE_TTL
        /\ v \in DOMAIN lastRecorded
        /\ lastRecorded[v].expireAt = now
        /\ v \notin DOMAIN chatCache

\* ---------------------------------------------------------------------
\* C29: no cross-user effect. Every turn of the history returned to a
\* request of u, of u's record, of a put of u and of the list in u's KV
\* entry was recorded by an updateHistoryHybrid call for u or comes from
\* the list stored under the key u; and a step of getHistoryHybrid(u) or
\* updateHistoryHybrid(u) leaves the record, the KV entry and the puts of
\* every other user v as they were, except that the sweep removes v's
\* record when it has expired.
\* ---------------------------------------------------------------------
\* the users under whose key a list was stored before the instance started
HasStoredList(u) == u = "u1"

TurnOf(t, u) ==
    \/ /\ t.content[1] = "old"
       /\ HasStoredList(u)
    \/ /\ t.content[1] # "old"
       /\ t.content[2] = u
       /\ t.content[3] \in 1..msgCount[u]

TurnsOf(h, u) == \A i \in 1..Len(h) : TurnOf(h[i], u)

\* the part of a Map that belongs to v
Only(m, v) == [x \in DOMAIN m \cap {v} |-> m[x]]

PutsOf(ws, v) == {ws[i].text : i \in {j \in DOMAIN ws : ws[j].user = v}}

C29_NoCrossUserEffect ==
    /\ [](/\ \A u \in DOMAIN chatCache : TurnsOf(chatCache[u].history, u)
          /\ \A r \in Reqs : req[r].pc = "ai"
                                => TurnsOf(req[r].history, req[r].user)
          /\ \A i \in DOMAIN writes :
                TurnsOf(writes[i].history, writes[i].user)
          /\ \A u \in DOMAIN kv :
                JSONParse(kv[u]).isArray => TurnsOf(JSONParse(kv[u]).value, u))
    /\ [][\A u \in Users :
            (\/ LoadContextStep(u)
             \/ RecordTurnStep(u)
             \/ \E r \in Reqs : /\ req[r].user = u
                                /\ req[r].pc = "got" /\ req'[r].pc # "got")
            => \A v \in Users \ {u} :
                  /\ Only(kv', v) = Only(kv, v)
                  /\ PutsOf(writes', v) = PutsOf(writes, v)
                  /\ \/ Only(chatCache', v) = Only(chatCache, v)
                     \/ /\ RecordTurnStep(u)
                        /\ v \in DOMAIN chatCache
                        /\ chatCache[v].expireAt <= now
                        /\ v \notin DOMAIN chatCache']_vars

\* both users have a record and a KV entry of their own turns, the first
\* user's record beginning with the two turns loaded from that user's key
C29_Witness ==
    /\ DOMAIN chatCache = Users
    /\ chatCache["u1"].history =
          OldTurns(2) \o <<Turn("user", UserText("u1", 1)),
                           Turn("assistant", ReplyText("ok", "u1", 1))>>
    /\ chatCache["u2"].history =
          <<Turn("user", UserText("u2", 1)),
            Turn("assistant", ReplyText("ok", "u2", 1))>>
    /\ DOMAIN kv = Users
    /\ kv["u1"] = JSONStringify(chatCache["u1"].history)
    /\ kv["u2"] = JSONStringify(chatCache["u2"].history)

\* ---------------------------------------------------------------------
\* C30: in the D1 table the user row of a request is inserted before the
\* assistant row of that request and the two rows of an exchange are next
\* to each other among the user's rows, so that getHistory returns every
\* assistant turn right after the user turn it answers, also when several
\* requests of the user are in flight at once.
\* ---------------------------------------------------------------------
\* an assistant entry follows the user entry of its exchange, and a user
\* entry that is not the last is followed by the assistant entry of its
\* exchange
ExchangesTogether(list) ==
    \A i \in 1..Len(list) :
        /\ list[i].role = "assistant"
              => /\ i > 1
                 /\ list[i - 1].role = "user"
                 /\ ExchangeOf(list[i - 1]) = ExchangeOf(list[i])
        /\ (list[i].role = "user" /\ i < Len(list))
              => /\ list[i + 1].role = "assistant"
                 /\ ExchangeOf(list[i + 1]) = ExchangeOf(list[i])

C30_ExchangeRowsAdjacent ==
    /\ \A u \in Users : ExchangesTogether(RowsOf(d1.rows, u))
    /\ \A r \in Reqs :
          d1.req[r].pc = "ai" =>
              \A i \in 1..Len(d1.req[r].history) :
                  d1.req[r].history[i].role = "assistant"
                      => /\ i > 1
                         /\ d1.req[r].history[i - 1].role = "user"
                         /\ ExchangeOf(d1.req[r].history[i - 1])
                                = ExchangeOf(d1.req[r].history[i])

\* ---------------------------------------------------------------------
\* C31: in the worker that keeps its history in KV (workerWithChat.js), for
\* every CHAT_HISTORY_LIMIT >= 1, even or odd, the history written to the
\* store by a request holds at most CHAT_HISTORY_LIMIT messages, ends with
\* the request's user message followed by the assistant reply, and does not
\* start with an assistant turn (one whose user turn was cut away).
\* ---------------------------------------------------------------------
WrittenHistory ==
    IF /\ wc.inv.pc = "done"
       /\ wc.bound
       /\ wc.inv.user \in DOMAIN wc.kvStore
       /\ wc.kvStore[wc.inv.user] = JSONStringify(wc.inv.history)
    THEN JsArray(JSONParse(wc.kvStore[wc.inv.user]).value)
    ELSE NotArray

C31_WrittenWholePairsAtAnyLimit ==
    WrittenHistory.isArray =>
        LET written == WrittenHistory.value
            n == Len(written)
        IN  /\ wc.limit >= 1
            /\ n <= wc.limit
            /\ n >= 2
            /\ written[n - 1]
                   = Turn("user", UserText(wc.inv.user, wc.inv.msg))
            /\ written[n] = Turn("assistant", wc.inv.reply)
            /\ written[1].role # "assistant"

====
